---- MODULE Spec2Model ----
(***************************************************************************)
(* Model of src/app.py: the data preparation pipeline of the trader        *)
(* sentiment dashboard (load_data), the sidebar filters that derive        *)
(* df_filtered from the cached table df, and the grouped views.            *)
(*                                                                         *)
(* Conventions.                                                            *)
(*  - A table (DataFrame) is a sequence of records, one record per row,    *)
(*    in row order.  Every merged row carries idx, its row label.          *)
(*  - Calendar dates are day ordinals (integers); a timestamp is a record  *)
(*    [valid, date, hour], valid = FALSE being NaT (errors='coerce').      *)
(*  - Money amounts are integers.  The sentiment value is counted in       *)
(*    tenths of a point (299 is 29.9), so that the bin edges 30, 45, 55,   *)
(*    70 are 300, 450, 550, 700.                                           *)
(*  - A float that may be inf or NaN is a record [kind, num, den] with     *)
(*    kind in {"num", "inf", "nan"}; "num" is the exact fraction num/den.  *)
(*  - A text is a sequence of one-character strings.                       *)
(***************************************************************************)
EXTENDS Integers, Sequences, FiniteSets, TLC

VARIABLES
    df_trader,          \* data/historical_data.csv as read (line 71)
    df_sentiment,       \* data/fear_greed_index.csv as read (line 72)
    df,                 \* the table returned by load_data (line 149)
    observed,           \* whether this pandas groups a categorical column
                        \* by its observed categories only
    date_range,         \* the sidebar widgets' values (lines 162-192)
    sentiment_options,
    selected_coins,
    position_filter,
    df_filtered,        \* the filtered view (lines 195-214)
    views,              \* the grouped views of the tabs
    metrics,            \* the key metrics row and the key insight box
    pc,                 \* where the script is
    cfg_f, cfg_g,       \* two filter configurations and
    composed,           \* the views got by applying them in turn
    x,                  \* an argument of classify_direction and
    x_position,         \* what it returns
    value,              \* a sentiment value and
    value_category      \* the category pd.cut gives it

\* the variables of the checks of the filters, of classify_direction and
\* of pd.cut on their own
pureVars == <<cfg_f, cfg_g, composed, x, x_position, value, value_category>>

vars ==
    <<df_trader, df_sentiment, df, observed, date_range, sentiment_options,
      selected_coins, position_filter, df_filtered, views, metrics, pc,
      pureVars>>

(***************************************************************************)
(* Bounds of the model.                                                    *)
(***************************************************************************)
MaxTrades == 3          \* rows of the trade table
MaxObs == 2             \* rows of the sentiment table

(***************************************************************************)
(* Sequence helpers.                                                       *)
(***************************************************************************)
SeqsUpTo(S, n) == UNION {[1..k -> S] : k \in 0..n}

RECURSIVE Flatten(_)
Flatten(ss) == IF ss = <<>> THEN <<>> ELSE Head(ss) \o Flatten(Tail(ss))

RECURSIVE SumOf(_, _)
\* Series.sum() of column col
SumOf(T, col) == IF T = <<>> THEN 0 ELSE Head(T)[col] + SumOf(Tail(T), col)

\* number of rows where the boolean column col is True
CountTrue(T, col) == Cardinality({i \in 1..Len(T) : T[i][col]})

(***************************************************************************)
(* Texts: str values as sequences of characters; 'sub' in x.               *)
(***************************************************************************)
Contains(t, sub) ==
    \E i \in 0..(Len(t) - Len(sub)) :
        \A j \in 1..Len(sub) : t[i + j] = sub[j]

LongToken == <<"L", "o", "n", "g">>
ShortToken == <<"S", "h", "o", "r", "t">>

\* classify_direction with the checks for 'Long' and 'Short' made one
\* after the other, without the check for both
classify_direction_first_hit(t) ==
    IF Contains(t, LongToken) THEN "Long"
    ELSE IF Contains(t, ShortToken) THEN "Short"
    ELSE "Other"

\* classify_direction (lines 104-113) on t, the text str(x)
classify_direction(t) ==
    IF Contains(t, ShortToken) /\ Contains(t, LongToken) THEN "Other"
    ELSE IF Contains(t, ShortToken) THEN "Short"
    ELSE IF Contains(t, LongToken) THEN "Long"
    ELSE "Other"

(***************************************************************************)
(* pd.cut(value, bins=[-inf, 30, 45, 55, 70, inf], labels, right=False):   *)
(* bin k is [edge k-1, edge k), the outer edges being -inf and +inf.       *)
(***************************************************************************)
BinEdges == <<300, 450, 550, 700>>
BinLabels == <<"Extreme Fear", "Fear", "Neutral", "Greed", "Extreme Greed">>

LeftClosedBin(v, k) ==
    /\ (k = 1 \/ BinEdges[k - 1] <= v)
    /\ (k = Len(BinLabels) \/ v < BinEdges[k])

\* pd.cut with right left at its default True: bin k is (edge k-1, edge k]
CutRightClosed(v) ==
    BinLabels[CHOOSE k \in 1..Len(BinLabels) :
        /\ (k = 1 \/ BinEdges[k - 1] < v)
        /\ (k = Len(BinLabels) \/ v <= BinEdges[k])]

Cut(v) == BinLabels[CHOOSE k \in 1..Len(BinLabels) : LeftClosedBin(v, k)]

(***************************************************************************)
(* Floats that may be inf or NaN.                                          *)
(***************************************************************************)
\* Series division a / b (IEEE: x/0 is +-inf for x # 0 and NaN for 0/0),
\* then * 100
RoiOf(pnl, size) ==
    IF size # 0 THEN [kind |-> "num", num |-> pnl * 100, den |-> size]
    ELSE IF pnl # 0 THEN [kind |-> "inf", num |-> pnl, den |-> 0]
    ELSE [kind |-> "nan", num |-> 0, den |-> 0]

\* np.isinf
IsInf(f) == f.kind = "inf"

(***************************************************************************)
(* load_data, stage by stage.                                              *)
(***************************************************************************)
NaT == [valid |-> FALSE, date |-> 0, hour |-> 0]

\* df_trader['date'] = pd.to_datetime(df_trader['Timestamp IST'].dt.date)
WithDate(T) ==
    [i \in 1..Len(T) |->
        [Account |-> T[i].Account, Coin |-> T[i].Coin,
         Direction |-> T[i].Direction, SizeUSD |-> T[i].SizeUSD,
         ClosedPnL |-> T[i].ClosedPnL, Fee |-> T[i].Fee,
         Timestamp |-> T[i].Timestamp,
         date_na |-> ~T[i].Timestamp.valid,
         date |-> T[i].Timestamp.date]]

\* one row of the left merge: the trade row with the observation's columns,
\* or with both missing when no observation matched
Joined(t, na, val, cls) ==
    [Account |-> t.Account, Coin |-> t.Coin, Direction |-> t.Direction,
     SizeUSD |-> t.SizeUSD, ClosedPnL |-> t.ClosedPnL, Fee |-> t.Fee,
     Timestamp |-> t.Timestamp, date_na |-> t.date_na, date |-> t.date,
     value_na |-> na, value |-> val,
     classification_na |-> na, classification |-> cls]

\* the observations a trade row matches, in the order of the right table;
\* every sentiment date is a date, so a missing key matches nothing
Matches(t, S) ==
    SelectSeq(S, LAMBDA o : ~t.date_na /\ o.date = t.date)

\* df_trader.merge(df_sentiment[['date','value','classification']],
\*                 on='date', how='left'): left order kept, one row per
\* match, one row with missing columns where nothing matches
LeftMerge(T, S) ==
    Flatten([i \in 1..Len(T) |->
        IF Matches(T[i], S) = <<>>
        THEN <<Joined(T[i], TRUE, 0, "")>>
        ELSE [j \in 1..Len(Matches(T[i], S)) |->
                Joined(T[i], FALSE, Matches(T[i], S)[j].value,
                       Matches(T[i], S)[j].classification)]])

\* the merge result gets a fresh RangeIndex; later stages keep the labels
Labelled(T) ==
    [i \in 1..Len(T) |-> [idx |-> i, row |-> T[i]]]

\* DropNa as it would be with the dropna of line 93 left out
KeepMissing(T) == T

\* df_merged.dropna(subset=['value', 'classification'])
DropNa(T) ==
    SelectSeq(T, LAMBDA r : ~r.row.value_na /\ ~r.row.classification_na)

\* is_profitable, roi, net_pnl (lines 96-98)
WithFeatures(T) ==
    [i \in 1..Len(T) |->
        [idx |-> T[i].idx, row |-> T[i].row,
         is_profitable |-> T[i].row.ClosedPnL > 0,
         roi |-> RoiOf(T[i].row.ClosedPnL, T[i].row.SizeUSD),
         net_pnl |-> T[i].row.ClosedPnL - T[i].row.Fee]]

\* df_merged[~np.isinf(df_merged['roi'])]
DropInfRoi(T) == SelectSeq(T, LAMBDA r : ~IsInf(r.roi))

DayOrder ==
    <<"Monday", "Tuesday", "Wednesday", "Thursday", "Friday", "Saturday",
      "Sunday">>

\* Timestamp.day_name(); day ordinal 1 is taken to be a Monday
DayName(d) == DayOrder[((d - 1) % 7) + 1]

\* position_type, sentiment_category, hour, day_of_week (lines 115-127)
Derived(r) ==
    [idx |-> r.idx,
     Account |-> r.row.Account, Coin |-> r.row.Coin,
     Direction |-> r.row.Direction, SizeUSD |-> r.row.SizeUSD,
     ClosedPnL |-> r.row.ClosedPnL, Fee |-> r.row.Fee,
     Timestamp |-> r.row.Timestamp,
     date |-> r.row.date, value |-> r.row.value,
     classification |-> r.row.classification,
     is_profitable |-> r.is_profitable, roi |-> r.roi, net_pnl |-> r.net_pnl,
     position_type |-> classify_direction(r.row.Direction),
     sentiment_category |-> Cut(r.row.value),
     hour |-> r.row.Timestamp.hour,
     day_of_week |-> DayName(r.row.Timestamp.date)]

WithDerived(T) == [i \in 1..Len(T) |-> Derived(T[i])]

RowsOf(T, acct) == SelectSeq(T, LAMBDA r : r.Account = acct)

\* TraderStats as it would be with the statistics taken over the whole
\* table instead of per account
TraderStatsUngrouped(T) ==
    [acct \in {T[i].Account : i \in 1..Len(T)} |->
        [total_pnl |-> SumOf(T, "ClosedPnL"),
         total_trades |-> Len(T),
         win_rate |-> <<CountTrue(T, "is_profitable"), Len(T)>>]]

\* df_merged.groupby('Account').agg({'Closed PnL': 'sum', 'Account': 'size',
\* 'is_profitable': 'mean'}), columns total_pnl, total_trades, win_rate;
\* the mean of a boolean column is kept as the fraction <<wins, rows>>
TraderStats(T) ==
    [acct \in {T[i].Account : i \in 1..Len(T)} |->
        [total_pnl |-> SumOf(RowsOf(T, acct), "ClosedPnL"),
         total_trades |-> Len(RowsOf(T, acct)),
         win_rate |-> <<CountTrue(RowsOf(T, acct), "is_profitable"),
                        Len(RowsOf(T, acct))>>]]

WithStats(r, st) ==
    [idx |-> r.idx,
     Account |-> r.Account, Coin |-> r.Coin,
     Direction |-> r.Direction, SizeUSD |-> r.SizeUSD,
     ClosedPnL |-> r.ClosedPnL, Fee |-> r.Fee,
     Timestamp |-> r.Timestamp,
     date |-> r.date, value |-> r.value,
     classification |-> r.classification,
     is_profitable |-> r.is_profitable, roi |-> r.roi, net_pnl |-> r.net_pnl,
     position_type |-> r.position_type,
     sentiment_category |-> r.sentiment_category,
     hour |-> r.hour, day_of_week |-> r.day_of_week,
     total_pnl |-> st.total_pnl, total_trades |-> st.total_trades,
     win_rate |-> st.win_rate]

\* df_merged.merge(trader_stats, left_on='Account', right_index=True)
AttachStats(T, stats) ==
    [i \in 1..Len(T) |-> WithStats(T[i], stats[T[i].Account])]

\* the rows of df_merged after line 101
Cleaned(T, S) ==
    DropInfRoi(WithFeatures(DropNa(Labelled(LeftMerge(WithDate(T), S)))))

\* load_data() on the two tables read
LoadData(T, S) ==
    AttachStats(WithDerived(Cleaned(T, S)),
                TraderStats(WithDerived(Cleaned(T, S))))

(***************************************************************************)
(* The sidebar filters (lines 194-214).  A configuration is a record       *)
(* [date_range, sentiment_options, selected_coins, position_filter]: the   *)
(* date range is the tuple st.date_input returns, the others are the       *)
(* selections of the multiselects.                                         *)
(***************************************************************************)
\* lines 198-202
DateFilter(T, dr) ==
    IF Len(dr) = 2
    THEN SelectSeq(T, LAMBDA r : r.date >= dr[1] /\ r.date <= dr[2])
    ELSE T

\* lines 205-206
SentimentFilter(T, so) ==
    IF so # {} THEN SelectSeq(T, LAMBDA r : r.classification \in so) ELSE T

\* CoinFilter as it would be without the test for the 'All' sentinel
CoinFilterNoSentinel(T, sc) ==
    IF sc # {} THEN SelectSeq(T, LAMBDA r : r.Coin \in sc) ELSE T

\* lines 209-210
CoinFilter(T, sc) ==
    IF "All" \notin sc /\ sc # {}
    THEN SelectSeq(T, LAMBDA r : r.Coin \in sc)
    ELSE T

\* PositionFilter as it would be if a selection that matches no row
\* showed every row
PositionFilterFallback(T, pf) ==
    IF \E i \in 1..Len(T) : T[i].position_type \in pf
    THEN SelectSeq(T, LAMBDA r : r.position_type \in pf)
    ELSE T

\* lines 213-214
PositionFilter(T, pf) ==
    IF pf # {} THEN SelectSeq(T, LAMBDA r : r.position_type \in pf) ELSE T

\* ApplyFilters as it would be with the trader statistics taken again from
\* the rows that pass the filters
ApplyFiltersRestat(T, cfg) ==
    LET V == PositionFilter(
                CoinFilter(
                    SentimentFilter(DateFilter(T, cfg.date_range),
                                    cfg.sentiment_options),
                    cfg.selected_coins),
                cfg.position_filter)
    IN  AttachStats(V, TraderStats(V))

\* df_filtered of lines 195-214 for the table T and the configuration cfg
ApplyFilters(T, cfg) ==
    PositionFilter(
        CoinFilter(
            SentimentFilter(DateFilter(T, cfg.date_range),
                            cfg.sentiment_options),
            cfg.selected_coins),
        cfg.position_filter)

(***************************************************************************)
(* The grouped views.  A view is a function from the group key (the tuple  *)
(* of the grouping columns' values) to the aggregated columns.             *)
(***************************************************************************)
NaN == [kind |-> "nan", num |-> 0, den |-> 0]

Num(n, d) == [kind |-> "num", num |-> n, den |-> d]

KeyOf(r, cols) == [c \in 1..Len(cols) |-> r[cols[c]]]

\* GroupKeys as it would be with the views grouping the cached table df
\* instead of the filtered view
GroupKeysOfLoaded(T, cols) == {KeyOf(df[i], cols) : i \in 1..Len(df)}

\* the keys df.groupby(cols) finds in the rows of T
GroupKeys(T, cols) == {KeyOf(T[i], cols) : i \in 1..Len(T)}

Group(T, cols, k) == SelectSeq(T, LAMBDA r : KeyOf(r, cols) = k)

\* 'mean' of Closed PnL and of is_profitable, 'count' of Account over the
\* rows G of one group; the mean of no rows is NaN, their count is 0
Agg(G) ==
    [ClosedPnL |-> IF G = <<>> THEN NaN
                   ELSE Num(SumOf(G, "ClosedPnL"), Len(G)),
     is_profitable |-> IF G = <<>> THEN NaN
                       ELSE Num(CountTrue(G, "is_profitable"), Len(G)),
     Account |-> Num(Len(G), 1)]

\* df.groupby(cols).agg({...}) on columns that are not categorical
GroupBy(T, cols) == [k \in GroupKeys(T, cols) |-> Agg(Group(T, cols, k))]

\* df.groupby('sentiment_category').agg({...}): sentiment_category is the
\* categorical column pd.cut made; with observed=False every category is
\* a group
GroupByCategory(T, obs) ==
    [k \in (IF obs THEN GroupKeys(T, <<"sentiment_category">>)
            ELSE {<<BinLabels[b]>> : b \in 1..Len(BinLabels)}) |->
        Agg(Group(T, <<"sentiment_category">>, k))]

\* .reindex(day_order): one row per label, all columns missing where the
\* frame has no such label
Reindex(v, labels) ==
    [k \in {<<labels[n]>> : n \in 1..Len(labels)} |->
        IF k \in DOMAIN v THEN v[k]
        ELSE [ClosedPnL |-> NaN, is_profitable |-> NaN, Account |-> NaN]]

\* the grouped frames of the tabs, before sorting and head()
ViewsOf(T, obs) ==
    [summary |-> GroupBy(T, <<"classification">>),
     detailed |-> GroupByCategory(T, obs),
     top_traders |-> GroupBy(T, <<"Account">>),
     position_perf |-> GroupBy(T, <<"classification", "position_type">>),
     coin_stats |-> GroupBy(T, <<"Coin">>),
     hourly |-> GroupBy(T, <<"hour">>),
     daily |-> Reindex(GroupBy(T, <<"day_of_week">>), DayOrder)]

NoViews ==
    [summary |-> <<>>, detailed |-> <<>>, top_traders |-> <<>>,
     position_perf |-> <<>>, coin_stats |-> <<>>, hourly |-> <<>>,
     daily |-> <<>>]

(***************************************************************************)
(* The key metrics row and the key insight box.  A mean is a fraction, NaN *)
(* when it is taken over no value.                                         *)
(***************************************************************************)
Abs(n) == IF n < 0 THEN 0 - n ELSE n

RECURSIVE Gcd(_, _)
Gcd(a, b) == IF b = 0 THEN a ELSE Gcd(b, a % b)

\* the fraction n/d, d > 0, in lowest terms
Reduced(n, d) ==
    LET g == Gcd(Abs(n), d) IN Num(n \div g, d \div g)

\* Series.mean() of the column col: NaN for an empty series
MeanOf(T, col) ==
    IF T = <<>> THEN NaN ELSE Reduced(SumOf(T, col), Len(T))

RECURSIVE SumRoi(_)
SumRoi(T) ==
    IF T = <<>> THEN Num(0, 1)
    ELSE LET r == Head(T).roi
             s == SumRoi(Tail(T))
         IN  Reduced(r.num * s.den + s.num * r.den, r.den * s.den)

\* df_filtered['roi'].mean(): the mean skips the rows whose roi is NaN
MeanRoi(T) ==
    LET S == SelectSeq(T, LAMBDA r : r.roi.kind = "num")
    IN  IF S = <<>> THEN NaN
        ELSE Reduced(SumRoi(S).num, SumRoi(S).den * Len(S))

NUnique(T, col) == Cardinality({T[i][col] : i \in 1..Len(T)})

\* a > b on floats: False when either is NaN
Greater(a, b) ==
    /\ a.kind = "num"
    /\ b.kind = "num"
    /\ a.num * b.den > b.num * a.den

\* ((a / abs(b)) - 1) * 100 if b != 0 else 999, lines 365 and 369
DiffPct(a, b) ==
    IF b.kind = "num" /\ b.num = 0 THEN Num(999, 1)
    ELSE IF a.kind = "nan" \/ b.kind = "nan" THEN NaN
    ELSE Reduced((a.num * b.den - Abs(b.num) * a.den) * 100,
                 Abs(b.num) * a.den)

\* lines 233-273 and 359-370 over the filtered view F and the cached table
\* T, which has rows: the two deltas divide by len(df) and by the number of
\* accounts of df
MetricsOf(F, T) ==
    LET fear_pnl ==
            MeanOf(SelectSeq(F, LAMBDA r : r.classification = "Fear"),
                   "ClosedPnL")
        greed_pnl ==
            MeanOf(SelectSeq(F, LAMBDA r : r.classification = "Greed"),
                   "ClosedPnL")
    IN  [total_trades |-> Len(F),
         share |-> Reduced(Len(F) * 100, Len(T)),
         total_pnl |-> SumOf(F, "ClosedPnL"),
         avg_pnl |-> MeanOf(F, "ClosedPnL"),
         win_rate |-> IF F = <<>> THEN NaN
                      ELSE Reduced(CountTrue(F, "is_profitable") * 100,
                                   Len(F)),
         avg_roi |-> MeanRoi(F),
         unique_traders |-> NUnique(F, "Account"),
         trader_share |-> Reduced(NUnique(F, "Account") * 100,
                                  NUnique(T, "Account")),
         fear_pnl |-> fear_pnl,
         greed_pnl |-> greed_pnl,
         better_sentiment |-> IF Greater(fear_pnl, greed_pnl) THEN "Fear"
                              ELSE "Greed",
         diff_pct |-> IF Greater(fear_pnl, greed_pnl)
                      THEN DiffPct(fear_pnl, greed_pnl)
                      ELSE DiffPct(greed_pnl, fear_pnl)]

\* nothing drawn yet
NoMetrics == <<>>

(***************************************************************************)
(* The sidebar widgets.                                                    *)
(***************************************************************************)
Dates(T) == {T[i].date : i \in 1..Len(T)}

\* df['date'].min(), df['date'].max() of a table with rows
MinDate(T) == CHOOSE d \in Dates(T) : \A e \in Dates(T) : d <= e
MaxDate(T) == CHOOSE d \in Dates(T) : \A e \in Dates(T) : e <= d

CoinCount(T, c) == Cardinality({i \in 1..Len(T) : T[i].Coin = c})

TopN == 10

\* df['Coin'].value_counts().head(10).index: the ten most frequent coins
TopCoins(T) ==
    LET all == {T[i].Coin : i \in 1..Len(T)}
    IN  IF Cardinality(all) <= TopN THEN all
        ELSE CHOOSE top \in SUBSET all :
                /\ Cardinality(top) = TopN
                /\ \A c \in top, o \in all \ top :
                        CoinCount(T, c) >= CoinCount(T, o)

\* what st.date_input can return: no, one or two dates between min_value
\* and max_value
DateRanges(T) == SeqsUpTo(MinDate(T)..MaxDate(T), 2)

SentimentChoices == SUBSET {"Fear", "Greed"}
CoinChoices(T) == SUBSET ({"All"} \cup TopCoins(T))
PositionChoices == SUBSET {"Long", "Short", "Other"}

NoConfig ==
    [date_range |-> <<>>, sentiment_options |-> {}, selected_coins |-> {},
     position_filter |-> {}]

Config ==
    [date_range |-> date_range, sentiment_options |-> sentiment_options,
     selected_coins |-> selected_coins, position_filter |-> position_filter]

NoPure ==
    /\ cfg_f = NoConfig /\ cfg_g = NoConfig /\ composed = <<>>
    /\ x = <<>> /\ x_position = ""
    /\ value = 0 /\ value_category = ""

NoSidebar ==
    /\ date_range = <<>>
    /\ sentiment_options = {}
    /\ selected_coins = {}
    /\ position_filter = {}

(***************************************************************************)
(* Inputs.                                                                 *)
(***************************************************************************)
Accounts == {"A", "B"}

OpenLong == <<"O", "p", "e", "n", " ", "L", "o", "n", "g">>
CloseShort == <<"C", "l", "o", "s", "e", " ", "S", "h", "o", "r", "t">>

At(d, h) == [valid |-> TRUE, date |-> d, hour |-> h]

\* size and PnL of a trade: a zero size with each sign of PnL, and two
\* ordinary trades
SizePnL == {<<0, -50>>, <<0, 0>>, <<0, 100>>, <<1000, 100>>, <<500, -50>>}

Trade(a, c, dir, sp, ts) ==
    [Account |-> a, Coin |-> c, Direction |-> dir, SizeUSD |-> sp[1],
     ClosedPnL |-> sp[2], Fee |-> 2, Timestamp |-> ts]

\* account A with every size and PnL on day 1 and a losing trade on day
\* 2; account B with a losing trade on day 2 and a trade whose timestamp
\* did not parse
LoadTradeRows ==
    {Trade("A", "BTC", OpenLong, sp, At(1, 9)) : sp \in SizePnL \ {<<500, -50>>}}
    \cup {Trade(a, "BTC", OpenLong, <<500, -50>>, At(2, 14)) : a \in Accounts}
    \cup {Trade("B", "BTC", OpenLong, <<1000, 100>>, NaT)}

LoadObsRows ==
    {[date |-> d, value |-> vc[1], classification |-> vc[2]] :
        d \in {1, 2}, vc \in {<<250, "Fear">>, <<600, "Greed">>}}

(***************************************************************************)
(* The load pipeline on its own.                                           *)
(***************************************************************************)
InitLoad ==
    /\ df_trader \in SeqsUpTo(LoadTradeRows, MaxTrades)
    /\ df_sentiment \in SeqsUpTo(LoadObsRows, MaxObs)
    /\ df = <<>>
    /\ observed = FALSE
    /\ NoSidebar
    /\ df_filtered = <<>>
    /\ views = NoViews
    /\ metrics = NoMetrics
    /\ pc = "start"
    /\ NoPure

RunLoadData ==
    /\ pc = "start"
    /\ df' = LoadData(df_trader, df_sentiment)
    /\ pc' = "loaded"
    /\ UNCHANGED <<df_trader, df_sentiment, observed, date_range,
                   sentiment_options, selected_coins, position_filter,
                   df_filtered, views, metrics, pureVars>>

NextLoad == RunLoadData

SpecLoad == InitLoad /\ [][NextLoad]_vars

(***************************************************************************)
(* The dashboard script: the first run loads the data and applies the      *)
(* widgets' defaults; every change of a widget runs the script again on    *)
(* the cached table.  A run is two steps: the sidebar and the filters,     *)
(* then the metrics and the tabs.                                          *)
(***************************************************************************)
Hedge ==
    <<"L", "o", "n", "g", "/", "S", "h", "o", "r", "t", " ", "H", "e", "d",
      "g", "e">>

\* the trade table the dashboard runs are drawn from
DashTrades ==
    <<Trade("A", "BTC", OpenLong, <<1000, 100>>, At(1, 9)),
      Trade("A", "ETH", CloseShort, <<500, -50>>, At(2, 14)),
      Trade("B", "BTC", Hedge, <<1000, 100>>, At(2, 9)),
      Trade("B", "ETH", OpenLong, <<500, -50>>, At(1, 14))>>

\* the rows of s at the positions I, in order
Restrict(s, I) ==
    LET F[n \in 0..Len(s)] ==
            IF n = 0 THEN <<>>
            ELSE IF n \in I THEN Append(F[n - 1], s[n]) ELSE F[n - 1]
    IN  F[Len(s)]

DashTradeTables ==
    {Restrict(DashTrades, I) :
        I \in {J \in SUBSET (1..Len(DashTrades)) : Cardinality(J) <= MaxTrades}}

DashObsRows ==
    {[date |-> 1, value |-> 250, classification |-> "Fear"],
     [date |-> 2, value |-> 600, classification |-> "Greed"]}

Init ==
    /\ df_trader \in DashTradeTables
    /\ df_sentiment \in SeqsUpTo(DashObsRows, MaxObs)
    /\ df = <<>>
    /\ observed \in BOOLEAN
    /\ NoSidebar
    /\ df_filtered = <<>>
    /\ views = NoViews
    /\ metrics = NoMetrics
    /\ pc = "start"
    /\ NoPure

\* lines 160-192: the values the widgets have on the first run
Defaults(T) ==
    [date_range |-> <<MinDate(T), MaxDate(T)>>,
     sentiment_options |-> {"Fear", "Greed"},
     selected_coins |-> {"All"},
     position_filter |-> {"Long", "Short"}]

\* a run that narrows the shared table itself instead of deriving a view
RunInPlace(T, cfg) ==
    /\ df' = ApplyFilters(T, cfg)
    /\ date_range' = cfg.date_range
    /\ sentiment_options' = cfg.sentiment_options
    /\ selected_coins' = cfg.selected_coins
    /\ position_filter' = cfg.position_filter
    /\ df_filtered' = ApplyFilters(T, cfg)
    /\ views' = NoViews
    /\ metrics' = NoMetrics
    /\ pc' = "filtered"
    /\ UNCHANGED <<df_trader, df_sentiment, observed, pureVars>>

\* lines 147-217 of a run of the script over the table T with the widget
\* values cfg: the run starts with no view computed
Run(T, cfg) ==
    /\ df' = T
    /\ date_range' = cfg.date_range
    /\ sentiment_options' = cfg.sentiment_options
    /\ selected_coins' = cfg.selected_coins
    /\ position_filter' = cfg.position_filter
    /\ df_filtered' = ApplyFilters(T, cfg)
    /\ views' = NoViews
    /\ metrics' = NoMetrics
    /\ pc' = "filtered"
    /\ UNCHANGED <<df_trader, df_sentiment, observed, pureVars>>

\* lines 233-691 of the run: the tabs' grouped frames, from df_filtered
DrawTabs ==
    /\ pc = "filtered"
    /\ metrics' = MetricsOf(df_filtered, df)
    /\ views' = ViewsOf(df_filtered, observed)
    /\ pc' = "ran"
    /\ UNCHANGED <<df_trader, df_sentiment, df, observed, date_range,
                   sentiment_options, selected_coins, position_filter,
                   df_filtered, pureVars>>

\* a run over a table without rows stops with an exception before any
\* view is drawn: at the latest total_trades/len(df) of line 240 divides
\* by zero
Fail(T) ==
    /\ df' = T
    /\ pc' = "error"
    /\ UNCHANGED <<df_trader, df_sentiment, observed, date_range,
                   sentiment_options, selected_coins, position_filter,
                   df_filtered, views, metrics, pureVars>>

FirstRun ==
    /\ pc = "start"
    /\ LET T == LoadData(df_trader, df_sentiment)
       IN  IF T = <<>> THEN Fail(T) ELSE Run(T, Defaults(T))

ChangeDateRange ==
    /\ pc = "ran"
    /\ \E dr \in DateRanges(df) \ {date_range} :
            Run(df, [Config EXCEPT !.date_range = dr])

ChangeSentiment ==
    /\ pc = "ran"
    /\ \E so \in SentimentChoices \ {sentiment_options} :
            Run(df, [Config EXCEPT !.sentiment_options = so])

ChangeCoins ==
    /\ pc = "ran"
    /\ \E sc \in CoinChoices(df) \ {selected_coins} :
            Run(df, [Config EXCEPT !.selected_coins = sc])

ChangePositions ==
    /\ pc = "ran"
    /\ \E pf \in PositionChoices \ {position_filter} :
            Run(df, [Config EXCEPT !.position_filter = pf])

Next ==
    \/ FirstRun
    \/ DrawTabs
    \/ ChangeDateRange
    \/ ChangeSentiment
    \/ ChangeCoins
    \/ ChangePositions

Spec == Init /\ [][Next]_vars

(***************************************************************************)
(* The filters on their own: two configurations applied in turn to an      *)
(* enriched table.                                                         *)
(***************************************************************************)
DashObs ==
    <<[date |-> 1, value |-> 250, classification |-> "Fear"],
      [date |-> 2, value |-> 600, classification |-> "Greed"]>>

ComposeConfigs ==
    [date_range : {<<>>, <<1, 1>>, <<1, 2>>, <<2, 1>>},
     sentiment_options : {{}, {"Fear"}, {"Fear", "Greed"}},
     selected_coins : {{}, {"All"}, {"BTC"}},
     position_filter : {{}, {"Long"}, {"Long", "Short"}}]

InitCompose ==
    /\ df_trader \in DashTradeTables
    /\ df_sentiment = DashObs
    /\ df = LoadData(df_trader, df_sentiment)
    /\ observed = FALSE
    /\ NoSidebar
    /\ df_filtered = <<>>
    /\ views = NoViews
    /\ metrics = NoMetrics
    /\ pc = "start"
    /\ cfg_f \in ComposeConfigs
    /\ cfg_g \in ComposeConfigs
    /\ composed = <<>>
    /\ x = <<>> /\ x_position = ""
    /\ value = 0 /\ value_category = ""

Compose ==
    /\ pc = "start"
    /\ composed' =
            [f |-> ApplyFilters(df, cfg_f),
             ff |-> ApplyFilters(ApplyFilters(df, cfg_f), cfg_f),
             fg |-> ApplyFilters(ApplyFilters(df, cfg_f), cfg_g),
             gf |-> ApplyFilters(ApplyFilters(df, cfg_g), cfg_f)]
    /\ pc' = "composed"
    /\ UNCHANGED <<df_trader, df_sentiment, df, observed, date_range,
                   sentiment_options, selected_coins, position_filter,
                   df_filtered, views, metrics,
                   cfg_f, cfg_g, x, x_position, value,
                   value_category>>

NextCompose == Compose

SpecCompose == InitCompose /\ [][NextCompose]_vars

(***************************************************************************)
(* classify_direction on its own.                                          *)
(***************************************************************************)
MaxWords == 4           \* pieces a direction text is put together from

Pieces ==
    {<<"O", "p", "e", "n", " ">>, <<"C", "l", "o", "s", "e", " ">>,
     LongToken, ShortToken, <<"/">>, <<" ", "H", "e", "d", "g", "e">>,
     <<"U", "n", "k", "n", "o", "w", "n">>, <<"l", "o", "n", "g">>,
     <<"S", "H", "O", "R", "T">>, <<"L", "o", "n">>}

\* str(x) of a missing Direction
NanText == <<"n", "a", "n">>

DirectionTexts ==
    {Flatten(ps) : ps \in SeqsUpTo(Pieces, MaxWords)} \cup {NanText}

InitClassify ==
    /\ df_trader = <<>> /\ df_sentiment = <<>> /\ df = <<>>
    /\ observed = FALSE
    /\ NoSidebar
    /\ df_filtered = <<>>
    /\ views = NoViews
    /\ metrics = NoMetrics
    /\ pc = "start"
    /\ cfg_f = NoConfig /\ cfg_g = NoConfig /\ composed = <<>>
    /\ x \in DirectionTexts
    /\ x_position = ""
    /\ value = 0 /\ value_category = ""

Classify ==
    /\ pc = "start"
    /\ x_position' = classify_direction(x)
    /\ pc' = "classified"
    /\ UNCHANGED <<df_trader, df_sentiment, df, observed, date_range,
                   sentiment_options, selected_coins, position_filter,
                   df_filtered, views, metrics,
                   cfg_f, cfg_g, composed, x, value,
                   value_category>>

NextClassify == Classify

SpecClassify == InitClassify /\ [][NextClassify]_vars

(***************************************************************************)
(* pd.cut on its own, over the 0-100 scale in tenths.                      *)
(***************************************************************************)
MaxValue == 1000

InitCut ==
    /\ df_trader = <<>> /\ df_sentiment = <<>> /\ df = <<>>
    /\ observed = FALSE
    /\ NoSidebar
    /\ df_filtered = <<>>
    /\ views = NoViews
    /\ metrics = NoMetrics
    /\ pc = "start"
    /\ cfg_f = NoConfig /\ cfg_g = NoConfig /\ composed = <<>>
    /\ x = <<>> /\ x_position = ""
    /\ value \in 0..MaxValue
    /\ value_category = ""

CutValue ==
    /\ pc = "start"
    /\ value_category' = Cut(value)
    /\ pc' = "cut"
    /\ UNCHANGED <<df_trader, df_sentiment, df, observed, date_range,
                   sentiment_options, selected_coins, position_filter,
                   df_filtered, views, metrics,
                   cfg_f, cfg_g, composed, x, x_position,
                   value>>

NextCut == CutValue

SpecCut == InitCut /\ [][NextCut]_vars

(***************************************************************************)
(* Properties of the table load_data returns.                              *)
(***************************************************************************)
Loaded == pc = "loaded"

Rows(T) == 1..Len(T)

\* C1: every row of the enriched table has Size USD > 0.
AllSizesPositive ==
    Loaded => \A i \in Rows(df) : df[i].SizeUSD > 0

HasObs(d) == \E k \in Rows(df_sentiment) : df_sentiment[k].date = d

SameAccount(i) == {j \in Rows(df) : df[j].Account = df[i].Account}

RECURSIVE PnLOver(_)
PnLOver(I) ==
    IF I = {} THEN 0
    ELSE LET j == CHOOSE k \in I : TRUE
         IN  df[j].ClosedPnL + PnLOver(I \ {j})

\* C5: the statistics on each row are the sum of Closed PnL, the number of
\* rows, and the fraction of rows with Closed PnL > 0, over the enriched
\* rows of the row's account.
StatsCorrect ==
    Loaded =>
        \A i \in Rows(df) :
            /\ df[i].total_pnl = PnLOver(SameAccount(i))
            /\ df[i].total_trades = Cardinality(SameAccount(i))
            /\ df[i].win_rate[2] = Cardinality(SameAccount(i))
            /\ df[i].win_rate[1] =
                    Cardinality({j \in SameAccount(i) : df[j].ClosedPnL > 0})
            /\ 0 <= df[i].win_rate[1]
            /\ df[i].win_rate[1] <= df[i].win_rate[2]

\* two accounts with different statistics, one of them with a trade that
\* was excluded for its infinite ROI
StatsWitness ==
    /\ Loaded
    /\ \E i, j \in Rows(df) :
            /\ df[i].Account # df[j].Account
            /\ df[i].total_pnl # df[j].total_pnl
            /\ df[i].win_rate # df[j].win_rate
            /\ \E n \in Rows(df_trader) :
                    /\ df_trader[n].Account = df[i].Account
                    /\ df_trader[n].SizeUSD = 0
                    /\ df_trader[n].ClosedPnL # 0
                    /\ HasObs(df_trader[n].Timestamp.date)

\* C12: one observation is used per date, so the enriched table has at
\* most one row per trade: it is never longer than the trade table, and two
\* enriched rows of one date carry the same value and classification.
JoinManyToOne ==
    Loaded =>
        /\ Len(df) <= Len(df_trader)
        /\ \A i, j \in Rows(df) :
                df[i].date = df[j].date =>
                    /\ df[i].value = df[j].value
                    /\ df[i].classification = df[j].classification

(***************************************************************************)
(* Properties of the filtered view and of the grouped views.               *)
(***************************************************************************)
Filtered == pc \in {"filtered", "ran"}

\* a row passes the configuration: every dimension that restricts (a date
\* range with both ends, a selection that is not empty and, for coins, does
\* not hold 'All') admits it
Satisfies(r, cfg) ==
    /\ Len(cfg.date_range) = 2 =>
            cfg.date_range[1] <= r.date /\ r.date <= cfg.date_range[2]
    /\ cfg.sentiment_options # {} => r.classification \in cfg.sentiment_options
    /\ (cfg.selected_coins # {} /\ "All" \notin cfg.selected_coins) =>
            r.Coin \in cfg.selected_coins
    /\ cfg.position_filter # {} => r.position_type \in cfg.position_filter

\* C2: the filtered view holds exactly the rows of the enriched table that
\* pass every restricting dimension of the configuration, in table order.
FilterExact ==
    Filtered => df_filtered = SelectSeq(df, LAMBDA r : Satisfies(r, Config))

\* 'All' selected next to one coin and no sentiment selected: rows of the
\* other coin are in the view, which still leaves rows out
FilterWitness ==
    /\ Filtered
    /\ "All" \in selected_coins
    /\ selected_coins # {"All"}
    /\ sentiment_options = {}
    /\ \E i \in Rows(df_filtered) : df_filtered[i].Coin \notin selected_coins
    /\ Len(df_filtered) < Len(df)

\* C3: every row of the filtered view is a row of the enriched table with
\* the same total_pnl, total_trades and win_rate.
StatsUnchangedByFilter ==
    Filtered =>
        \A i \in Rows(df_filtered) :
            \E j \in Rows(df) :
                /\ df[j].idx = df_filtered[i].idx
                /\ df[j].Account = df_filtered[i].Account
                /\ df[j].total_pnl = df_filtered[i].total_pnl
                /\ df[j].total_trades = df_filtered[i].total_trades
                /\ df[j].win_rate = df_filtered[i].win_rate

\* after a change of a widget, an account is in the view with one of its
\* rows while another of its rows is filtered out
StatsFrameWitness ==
    /\ pc = "ran"
    /\ selected_coins # {"All"}
    /\ \E i \in Rows(df_filtered), j \in Rows(df) :
            /\ df[j].Account = df_filtered[i].Account
            /\ df[j].ClosedPnL # 0
            /\ \A k \in Rows(df_filtered) : df_filtered[k].idx # df[j].idx

\* C13: the first run leaves the table load_data built, every later step
\* leaves the table as it was, and the filtered view a run leaves is the
\* filter of that table by the widget values of that run alone.
TableImmutable ==
    [][/\ (pc = "start" /\ pc' # "start") =>
                df' = LoadData(df_trader, df_sentiment)
       /\ pc # "start" => df' = df
       /\ Filtered' => df_filtered' = ApplyFilters(df', Config')]_vars

\* a drawn run whose widget values differ from the first run's in two
\* widgets and whose view is a non-empty proper part of the table
InteractionWitness ==
    /\ pc = "ran"
    /\ sentiment_options # Defaults(df).sentiment_options
    /\ selected_coins # Defaults(df).selected_coins
    /\ df_filtered # <<>>
    /\ Len(df_filtered) < Len(df)

\* a float that is zero or missing
ZeroOrMissing(f) == f.kind = "nan" \/ f.num = 0

\* the metrics and the views of a drawn run show no trade: the counts and
\* the sums are zero, the means are zero or NaN, and every row a view still
\* has is a placeholder with a count of zero or NaN
NothingToShow ==
    /\ metrics.total_trades = 0
    /\ metrics.total_pnl = 0
    /\ metrics.unique_traders = 0
    /\ ZeroOrMissing(metrics.win_rate)
    /\ ZeroOrMissing(metrics.avg_roi)
    /\ ZeroOrMissing(metrics.fear_pnl)
    /\ ZeroOrMissing(metrics.greed_pnl)
    /\ \A v \in DOMAIN views :
            \A k \in DOMAIN views[v] : ZeroOrMissing(views[v][k].Account)

\* C11: a run whose filtered view has no rows does not raise, and what it
\* draws is empty, zero or NaN.
EmptyViewComputes ==
    (pc # "start" /\ df_filtered = <<>>) =>
        /\ pc # "error"
        /\ pc = "ran" => NothingToShow

Inverted == Len(date_range) = 2 /\ date_range[2] < date_range[1]

\* C7: a run whose date range ends before it starts stops with an error.
InvertedRangeRejected == Inverted => pc = "error"

ViewColumns ==
    [summary |-> <<"classification">>,
     detailed |-> <<"sentiment_category">>,
     top_traders |-> <<"Account">>,
     position_perf |-> <<"classification", "position_type">>,
     coin_stats |-> <<"Coin">>,
     hourly |-> <<"hour">>,
     daily |-> <<"day_of_week">>]

\* the groups of view v that have rows in the filtered view
Observed(v) == {KeyOf(df_filtered[i], ViewColumns[v]) : i \in Rows(df_filtered)}

Populated(g) ==
    /\ g.Account.kind = "num" /\ g.Account.num >= 1
    /\ g.ClosedPnL.kind = "num"
    /\ g.is_profitable.kind = "num"

Both(T, F, G) == SelectSeq(T, LAMBDA r : Satisfies(r, F) /\ Satisfies(r, G))

\* C6: applying F and then G gives the rows that pass F and G at once,
\* whichever of the two is applied first, and applying F twice gives what
\* applying it once gives.
FiltersCompose ==
    pc = "composed" =>
        /\ composed.fg = Both(df, cfg_f, cfg_g)
        /\ composed.gf = composed.fg
        /\ composed.ff = composed.f

\* F restricts the dates and the sentiment, G the coin; each of them alone
\* keeps a row the two together drop
ComposeWitness ==
    /\ pc = "composed"
    /\ Len(cfg_f.date_range) = 2
    /\ cfg_f.sentiment_options = {"Fear"}
    /\ cfg_f.selected_coins = {"All"}
    /\ cfg_g.date_range = <<>>
    /\ cfg_g.selected_coins = {"BTC"}
    /\ composed.fg # <<>>
    /\ Len(composed.fg) < Len(composed.f)
    /\ Len(composed.fg) < Len(ApplyFilters(df, cfg_g))

(***************************************************************************)
(* Properties of classify_direction and of pd.cut.                         *)
(***************************************************************************)
\* sub occurs in t as a run of consecutive characters
Occurs(sub, t) ==
    \E i \in 1..(Len(t) - Len(sub) + 1) :
        SubSeq(t, i, i + Len(sub) - 1) = sub

\* C10: the position type is Long when the text holds 'Long' and not
\* 'Short', Short when it holds 'Short' and not 'Long', Other otherwise;
\* 'Open Long', 'Close Short', 'Long/Short Hedge', 'Unknown' give Long,
\* Short, Other, Other.
DirectionClassified ==
    pc = "classified" =>
        /\ x_position = "Long" <=>
                Occurs(LongToken, x) /\ ~Occurs(ShortToken, x)
        /\ x_position = "Short" <=>
                Occurs(ShortToken, x) /\ ~Occurs(LongToken, x)
        /\ x_position = "Other" <=>
                (Occurs(LongToken, x) <=> Occurs(ShortToken, x))
        /\ x = OpenLong => x_position = "Long"
        /\ x = CloseShort => x_position = "Short"
        /\ x = Hedge => x_position = "Other"
        /\ x = <<"U", "n", "k", "n", "o", "w", "n">> => x_position = "Other"

\* a text with both tokens has been classified
DirectionWitness ==
    pc = "classified" /\ x = Hedge /\ x_position = "Other"

\* the bucket the half-open bins with edges 30, 45, 55, 70 give v tenths
Bucket(v) ==
    IF v < 300 THEN "Extreme Fear"
    ELSE IF v < 450 THEN "Fear"
    ELSE IF v < 550 THEN "Neutral"
    ELSE IF v < 700 THEN "Greed"
    ELSE "Extreme Greed"

\* C9: the category of a value is the one of the half-open bin it falls
\* in, it falls in exactly one bin, and an edge belongs to the bin on its
\* right.
BucketsHalfOpen ==
    pc = "cut" =>
        /\ value_category = Bucket(value)
        /\ Cardinality({k \in 1..Len(BinLabels) : LeftClosedBin(value, k)}) = 1
        /\ value = 299 => value_category = "Extreme Fear"
        /\ value \in {300, 449} => value_category = "Fear"
        /\ value \in {450, 549} => value_category = "Neutral"
        /\ value \in {550, 699} => value_category = "Greed"
        /\ value = 700 => value_category = "Extreme Greed"

\* an edge value has been cut
BucketWitness ==
    pc = "cut" /\ value = 450 /\ value_category = "Neutral"

====
